---- MODULE Spec2Model ----
(***************************************************************************)
(* Materialized server-side cursors (sql/sql_cursor.cc).                   *)
(*                                                                         *)
(* One prepared/SP statement of one session, its Query_result_materialize  *)
(* mediator, the Materialized_cursor objects the mediator creates, the     *)
(* temporary table with its storage handler, and the caller that opens,    *)
(* fetches from and closes the cursor.  Every action is one whole call of  *)
(* mysql_open_cursor, Materialized_cursor::fetch or                        *)
(* Materialized_cursor::close; the answers of the collaborators (handler,  *)
(* Result Sink, executor) are inputs of the action.                        *)
(***************************************************************************)
EXTENDS Integers, Sequences, FiniteSets, TLC

(***************************************************************************)
(* Bounds of the model.                                                    *)
(***************************************************************************)
\* rows of a materialized result: 0..MaxRows
MaxRows == 3
\* ulong counters fetch_limit / fetch_count are kept modulo UlongMod
UlongMod == 5
\* Materialized_cursor objects that may be allocated in one behaviour
MaxCursors == 2
\* cumulative rows requested since open that the model follows
MaxSum == 6

\* largest num_rows a caller passes: any value of the counter's type
MaxFetch == UlongMod - 1

Min(a, b) == IF a < b THEN a ELSE b

Sinks == {1, 2}

\* a materialized result of R rows: row i of execution g is the number g + i,
\* so that every row of a table is distinct and two executions differ
Generations == {0, 10}
Rows(g, R) == [i \in 1..R |-> g + i]
RowSets == {Rows(g, R) : g \in Generations, R \in 0..MaxRows}

\* original columns of the statement: each has an originating db and table
ColumnLists ==
  { << [db |-> "db1", tn |-> "t1"] >>,
    << [db |-> "db1", tn |-> "t1"], [db |-> "db2", tn |-> "t2"] >> }

\* the descriptor a temporary-table column carries before its identity is copied
TmpColumn == [db |-> "", tn |-> "tmp"]

\* handler results
HA_OK == "ok"
HA_ERR_END_OF_FILE == "eof"
HA_ERR_OTHER == "err"
HA_CRASH == "crash"

SERVER_STATUS_CURSOR_EXISTS == "CURSOR_EXISTS"
SERVER_STATUS_LAST_ROW_SENT == "LAST_ROW_SENT"

VARIABLES
  stmt,       \* the statement: is_dml, may_use_cursor, is_regular, is_prepared, result, lazy
  med,        \* the Query_result_materialize mediator of the statement
  cur,        \* Materialized_cursor objects, by id
  tbl,        \* the temporary table and its storage handler
  pcursor,    \* the caller's cursor reference (0 = null)
  hist,       \* what happened since the last open(): requested, forwarded, failures
  last,       \* the call that has just returned: arguments, result and what it sent
  crashed     \* the process has taken an undefined step: nothing follows it

vars == << stmt, med, cur, tbl, pcursor, hist, last, crashed >>

CursorIds == 1..MaxCursors

NoCursor ==
  [ state |-> "unalloc", result |-> 0, table |-> FALSE, item_list |-> << >>,
    fetch_limit |-> 0, fetch_count |-> 0, is_rnd_inited |-> FALSE ]

NoTable ==
  [ state |-> "null", created |-> FALSE, handler |-> FALSE, scanning |-> FALSE,
    rows |-> << >>, pos |-> 0, inits |-> 0 ]

NoMediator ==
  [ exists |-> FALSE, result |-> 0, materialized_cursor |-> 0, table |-> FALSE ]

NoCall ==
  [ op |-> "none", n |-> 0, ret |-> "none", cursor |-> 0, sink |-> 0,
    open_before |-> FALSE, alive_before |-> FALSE, scan_before |-> FALSE,
    fc_before |-> 0, fl_before |-> 0, pos_before |-> 0,
    fwd |-> << >>, reads |-> 0, released_reads |-> 0, begun |-> FALSE,
    eof |-> 0, abort |-> 0, status |-> {}, scan_err_at |-> 0, send_fail_at |-> 0,
    rejected |-> FALSE, executed |-> FALSE, rnd_ends |-> 0, handle_releases |-> 0,
    med_before |-> NoMediator, stmt_result_before |-> 0, pcursor_before |-> 0,
    created_mediator |-> FALSE, error |-> "", asserts |-> 0, undefined |-> 0,
    deletes |-> 0, instantiations |-> 0, metadata |-> << >>, med_abort |-> 0,
    opened |-> FALSE, fail |-> "none", exec_failed |-> FALSE, constructed |-> 0,
    columns |-> << >>, fills |-> 0, meta_calls |-> 0, meta_cursor |-> 0,
    item_list_kept |-> TRUE, meta_sink |-> 0, row_sinks |-> {},
    prepared_before |-> FALSE, same_state |-> FALSE, start_calls |-> 0,
    early_returns |-> 0, arena |-> "statement", mem_root |-> "statement",
    arena_trace |-> << >>, unbound_deletes |-> 0 ]

\* calls counts the fetch calls since open() as long as each was made on the
\* open cursor and no delivery failed (0 afterwards); sent_ok: none failed
NoHist == [ opened |-> FALSE, requested |-> 0, delivered |-> << >>, clean |-> TRUE,
            precondition |-> TRUE, drained |-> FALSE, reopened |-> FALSE,
            sink |-> 0, earlier |-> 0, calls |-> 0, sent_ok |-> TRUE ]

Init ==
  /\ stmt \in [ is_dml : BOOLEAN, may_use_cursor : BOOLEAN, is_regular : BOOLEAN,
                is_prepared : BOOLEAN, result : {0}, query_result : {0},
                lazy : {FALSE}, destroyed : {FALSE} ]
  /\ med = NoMediator
  /\ cur = [c \in CursorIds |-> NoCursor]
  /\ tbl = NoTable
  /\ pcursor = 0
  /\ hist = NoHist
  /\ last = NoCall
  /\ crashed = FALSE

(***************************************************************************)
(* The storage handler of the temporary table (Scan Handle).               *)
(***************************************************************************)

\* handler::ha_rnd_init(true): a sequential scan positioned before the first row
ha_rnd_init(t, ok) ==
  IF ok THEN [t EXCEPT !.scanning = TRUE, !.pos = 0, !.inits = Min(@ + 1, 2)] ELSE t

\* handler::ha_rnd_end()
ha_rnd_end(t) == [t EXCEPT !.scanning = FALSE]

\* handler::ha_rnd_next(): the k-th read of a call.  A read through a released
\* handle, or through one with no scan, is undefined: it stops the process,
\* or yields whatever the build makes of it (a row, end-of-file, an error).
ha_rnd_next(t, k, env) ==
  IF ~t.handler \/ ~t.scanning THEN
    [ res |-> CASE env.ub = "crash" -> HA_CRASH
                [] env.ub = "row"   -> HA_OK
                [] env.ub = "eof"   -> HA_ERR_END_OF_FILE
                [] OTHER            -> HA_ERR_OTHER,
      row |-> "junk", t |-> t, released |-> TRUE ]
  ELSE IF env.scan_err_at = k THEN
    [ res |-> HA_ERR_OTHER, row |-> "junk", t |-> t, released |-> FALSE ]
  ELSE IF t.pos >= Len(t.rows) THEN
    [ res |-> HA_ERR_END_OF_FILE, row |-> "junk", t |-> t, released |-> FALSE ]
  ELSE
    [ res |-> HA_OK, row |-> t.rows[t.pos + 1],
      t |-> [t EXCEPT !.pos = @ + 1], released |-> FALSE ]

\* close_tmp_table(): releases the table's storage handle, keeps the object
close_tmp_table(t) ==
  [t EXCEPT !.handler = FALSE, !.created = FALSE, !.scanning = FALSE]

\* free_tmp_table(): destroys the table object
free_tmp_table(t) ==
  [t EXCEPT !.state = "freed", !.handler = FALSE, !.created = FALSE,
            !.scanning = FALSE]

\* instantiate_tmp_table(): creates the storage and attaches a handler to it
instantiate_tmp_table(t) ==
  [t EXCEPT !.created = TRUE, !.handler = TRUE, !.scanning = FALSE,
            !.rows = << >>, !.pos = 0]

(***************************************************************************)
(* Materialized_cursor                                                     *)
(***************************************************************************)

\* THD::swap_query_arena(set, backup): `set` becomes the session's active
\* arena (the caller keeps the previous one as its backup)
swap_query_arena(o, set) == [o EXCEPT !.arena = set]

\* an operation returns: the arena (or mem_root) that was active on entry,
\* inside the operation and on return is put on record
returned(o, op, entry, inside, exit) ==
  [o EXCEPT !.arena_trace =
     Append(@, [op |-> op, entry |-> entry, inside |-> inside, exit |-> exit])]

\* Materialized_cursor::is_open()
is_open(c, t) == c.table /\ t.handler

\* a close() that keeps the list of descriptors
close_keeps_item_list(c, t, o) ==
  LET ended == c.is_rnd_inited
      t1    == IF ended THEN ha_rnd_end(t) ELSE t
  IN  [ c |-> [c EXCEPT !.is_rnd_inited = FALSE],
        t |-> close_tmp_table(t1),
        o |-> [o EXCEPT !.rnd_ends = @ + (IF ended THEN 1 ELSE 0),
                        !.handle_releases = @ + (IF t1.handler THEN 1 ELSE 0)] ]

\* a close() that ends the scan and leaves is_rnd_inited set
close_keeps_flag(c, t, o) ==
  LET ended == c.is_rnd_inited
      t1    == IF ended THEN ha_rnd_end(t) ELSE t
  IN  [ c |-> [c EXCEPT !.item_list = << >>],
        t |-> close_tmp_table(t1),
        o |-> [o EXCEPT !.rnd_ends = @ + (IF ended THEN 1 ELSE 0),
                        !.handle_releases = @ + (IF t1.handler THEN 1 ELSE 0)] ]

\* Materialized_cursor::close()
close(c, t, o) ==
  LET ended == c.is_rnd_inited
      t1    == IF ended THEN ha_rnd_end(t) ELSE t
  IN  [ c |-> [c EXCEPT !.is_rnd_inited = FALSE, !.item_list = << >>],
        t |-> close_tmp_table(t1),
        o |-> [o EXCEPT !.rnd_ends = @ + (IF ended THEN 1 ELSE 0),
                        !.handle_releases = @ + (IF t1.handler THEN 1 ELSE 0)] ]

\* an open() that does not reset the counters of the previous scan
open_keeps_counters(c, t, o, env) ==
  LET rc1   == env.fail = "open_prepare"
      undef == ~rc1 /\ ~t.handler
      rc    == rc1 \/ env.fail = "rnd_init" \/ undef
      t1    == IF rc1 \/ undef THEN t ELSE ha_rnd_init(t, ~rc)
      c1    == [c EXCEPT !.is_rnd_inited = ~rc]
      oa    == swap_query_arena(o, "cursor")
      ob    == swap_query_arena(oa, o.arena)
      o1    == IF ~rc
               THEN [ob EXCEPT !.status = @ \cup {SERVER_STATUS_CURSOR_EXISTS},
                               !.eof = @ + 1]
               ELSE [ob EXCEPT !.abort = @ + 1]
  IN  [ c |-> c1, t |-> t1,
        o |-> returned([o1 EXCEPT !.undefined = @ + (IF undef THEN 1 ELSE 0)],
                       "open", o.arena, oa.arena, ob.arena),
        rc |-> rc, crash |-> undef /\ env.ub = "crash" ]

\* an open() that marks the scan active whatever ha_rnd_init() returned
open_always_inited(c, t, o, env) ==
  LET rc1   == env.fail = "open_prepare"
      undef == ~rc1 /\ ~t.handler
      rc    == rc1 \/ env.fail = "rnd_init" \/ undef
      t1    == IF rc1 \/ undef THEN t ELSE ha_rnd_init(t, ~rc)
      c1    == [c EXCEPT !.is_rnd_inited = TRUE, !.fetch_limit = 0, !.fetch_count = 0]
      oa    == swap_query_arena(o, "cursor")
      ob    == swap_query_arena(oa, o.arena)
      o1    == IF ~rc
               THEN [ob EXCEPT !.status = @ \cup {SERVER_STATUS_CURSOR_EXISTS},
                               !.eof = @ + 1]
               ELSE [ob EXCEPT !.abort = @ + 1]
  IN  [ c |-> c1, t |-> t1,
        o |-> returned([o1 EXCEPT !.undefined = @ + (IF undef THEN 1 ELSE 0)],
                       "open", o.arena, oa.arena, ob.arena),
        rc |-> rc, crash |-> undef /\ env.ub = "crash" ]

\* Materialized_cursor::open(): env.fail names the collaborator call that fails
open(c, t, o, env) ==
  LET rc1   == env.fail = "open_prepare"
      undef == ~rc1 /\ ~t.handler
      rc    == rc1 \/ env.fail = "rnd_init" \/ undef
      t1    == IF rc1 \/ undef THEN t ELSE ha_rnd_init(t, ~rc)
      c1    == [c EXCEPT !.is_rnd_inited = ~rc, !.fetch_limit = 0, !.fetch_count = 0]
      oa    == swap_query_arena(o, "cursor")
      ob    == swap_query_arena(oa, o.arena)
      o1    == IF ~rc
               THEN [ob EXCEPT !.status = @ \cup {SERVER_STATUS_CURSOR_EXISTS},
                               !.eof = @ + 1]
               ELSE [ob EXCEPT !.abort = @ + 1]
  IN  [ c |-> c1, t |-> t1,
        o |-> returned([o1 EXCEPT !.undefined = @ + (IF undef THEN 1 ELSE 0)],
                       "open", o.arena, oa.arena, ob.arena),
        rc |-> rc, crash |-> undef /\ env.ub = "crash" ]

\* a fetch() that sets fetch_limit to the batch size instead of adding it
fetch_limit_set(c, num_rows) ==
  [c EXCEPT !.fetch_limit = num_rows % UlongMod]

\* fetch(): the loop's initialisation, fetch_limit += num_rows (ulong)
fetch_limit_add(c, num_rows) ==
  [c EXCEPT !.fetch_limit = (@ + num_rows) % UlongMod]

\* a loop that runs while fetch_count <= fetch_limit
fetch_more_le(c) == c.fetch_count <= c.fetch_limit

\* fetch(): the loop's condition, fetch_count < fetch_limit
fetch_more(c) == c.fetch_count < c.fetch_limit

\* a send_data() failure that still counts the row
send_data_failed_counted(c, t, o, i) ==
  [ c |-> [c EXCEPT !.fetch_count = (@ + 1) % UlongMod], t |-> t,
    o |-> [o EXCEPT !.send_fail_at = i], res |-> HA_OK, send_failed |-> TRUE ]

\* fetch(): send_data() failed for the row just read: return true at once
send_data_failed(c, t, o, i) ==
  [ c |-> c, t |-> t, o |-> [o EXCEPT !.send_fail_at = i],
    res |-> HA_OK, send_failed |-> TRUE ]

\* the for loop of Materialized_cursor::fetch(), after fetch_limit += num_rows;
\* i reads have been made so far in this call
RECURSIVE FetchLoop(_, _, _, _, _)
FetchLoop(c, t, o, i, env) ==
  IF ~fetch_more(c)
  THEN [ c |-> c, t |-> t, o |-> o, res |-> HA_OK, send_failed |-> FALSE ]
  ELSE
    LET r  == ha_rnd_next(t, i + 1, env)
        o1 == [o EXCEPT !.reads = @ + 1,
                        !.released_reads = @ + (IF r.released THEN 1 ELSE 0),
                        !.scan_err_at = IF r.res = HA_ERR_OTHER THEN i + 1 ELSE @]
    IN  IF r.res # HA_OK
        THEN [ c |-> c, t |-> r.t, o |-> o1, res |-> r.res, send_failed |-> FALSE ]
        ELSE IF env.send_fail_at = i + 1
        THEN send_data_failed(c, r.t, o1, i + 1)
        ELSE FetchLoop([c EXCEPT !.fetch_count = (@ + 1) % UlongMod], r.t,
                       [o1 EXCEPT !.fwd = Append(@, r.row),
                                  !.row_sinks = @ \cup {c.result}], i + 1, env)

\* fetch(): switch (res), case 0
fetch_case_0(L) ==
  [ c |-> L.c, t |-> L.t,
    o |-> [L.o EXCEPT !.status = @ \cup {SERVER_STATUS_CURSOR_EXISTS}, !.eof = @ + 1],
    rc |-> FALSE, crash |-> FALSE ]

\* an end-of-file case that closes the cursor but reports cursor-exists
fetch_case_eof_cursor_exists(L) ==
  LET o2 == [L.o EXCEPT !.status = @ \cup {SERVER_STATUS_CURSOR_EXISTS}, !.eof = @ + 1]
      k  == close(L.c, L.t, o2)
  IN  [ c |-> k.c, t |-> k.t, o |-> k.o, rc |-> FALSE, crash |-> FALSE ]

\* an end-of-file case that reports the last row but forgets close()
fetch_case_eof_no_close(L) ==
  [ c |-> L.c, t |-> L.t,
    o |-> [L.o EXCEPT !.status = @ \cup {SERVER_STATUS_LAST_ROW_SENT}, !.eof = @ + 1],
    rc |-> FALSE, crash |-> FALSE ]

\* fetch(): switch (res), case HA_ERR_END_OF_FILE
fetch_case_eof(L) ==
  LET o2 == [L.o EXCEPT !.status = @ \cup {SERVER_STATUS_LAST_ROW_SENT}, !.eof = @ + 1]
      k  == close(L.c, L.t, o2)
  IN  [ c |-> k.c, t |-> k.t, o |-> k.o, rc |-> FALSE, crash |-> FALSE ]

\* an error case that returns failure but forgets close()
fetch_case_default_no_close(L) ==
  [ c |-> L.c, t |-> L.t, o |-> [L.o EXCEPT !.error = "handler"],
    rc |-> TRUE, crash |-> FALSE ]

\* fetch(): switch (res), default
fetch_case_default(L) ==
  LET k == close(L.c, L.t, [L.o EXCEPT !.error = "handler"])
  IN  [ c |-> k.c, t |-> k.t, o |-> k.o, rc |-> TRUE, crash |-> FALSE ]

\* a fetch() that checks is_open() first and rejects a closed cursor
fetch_checked(c, t, o, num_rows, env) ==
  IF ~is_open(c, t)
  THEN [ c |-> c, t |-> t, o |-> o, rc |-> TRUE, crash |-> FALSE ]
  ELSE
    LET L == FetchLoop(fetch_limit_add(c, num_rows), t, [o EXCEPT !.begun = TRUE], 0, env)
    IN  IF L.send_failed
        THEN [ c |-> L.c, t |-> L.t, o |-> L.o, rc |-> TRUE, crash |-> FALSE ]
        ELSE CASE L.res = HA_OK -> fetch_case_0(L)
               [] L.res = HA_ERR_END_OF_FILE -> fetch_case_eof(L)
               [] L.res = HA_CRASH ->
                    [ c |-> L.c, t |-> L.t, o |-> L.o, rc |-> TRUE, crash |-> TRUE ]
               [] OTHER -> fetch_case_default(L)

\* Materialized_cursor::fetch(num_rows)
fetch(c, t, o, num_rows, env) ==
  LET L == FetchLoop(fetch_limit_add(c, num_rows), t, [o EXCEPT !.begun = TRUE], 0, env)
  IN  IF L.send_failed
      THEN [ c |-> L.c, t |-> L.t, o |-> L.o, rc |-> TRUE, crash |-> FALSE ]
      ELSE CASE L.res = HA_OK -> fetch_case_0(L)
             [] L.res = HA_ERR_END_OF_FILE -> fetch_case_eof(L)
             [] L.res = HA_CRASH ->
                  [ c |-> L.c, t |-> L.t, o |-> L.o, rc |-> TRUE, crash |-> TRUE ]
             [] OTHER -> fetch_case_default(L)

(***************************************************************************)
(* Query_result_materialize.  A world w is the record of the objects a     *)
(* call works on: [stmt, med, cur, tbl, o, crash]; o collects what the     *)
(* call sent and did.                                                      *)
(***************************************************************************)

FreeCursorIds(cs) == {c \in CursorIds : cs[c].state = "unalloc"}
NewCursorId(cs) == CHOOSE c \in FreeCursorIds(cs) : \A d \in FreeCursorIds(cs) : c <= d

\* Materialized_cursor::Materialized_cursor(result)
Materialized_cursor(result) == [NoCursor EXCEPT !.state = "alive", !.result = result]

\* Materialized_cursor::~Materialized_cursor(), run by delete on cursor id;
\* deleting a destroyed object, and is_open() on an unbound table, are undefined
delete_cursor(w, id) ==
  LET c      == w.cur[id]
      twice  == c.state = "destroyed"
      nulltb == ~c.table
      bad    == c.table /\ w.tbl.handler
  IN  [w EXCEPT !.cur[id].state = "destroyed",
                !.tbl = IF c.table /\ ~twice THEN free_tmp_table(@) ELSE @,
                !.o.deletes = @ + 1,
                !.o.asserts = @ + (IF bad THEN 1 ELSE 0),
                !.o.unbound_deletes = @ + (IF nulltb THEN 1 ELSE 0),
                !.o.undefined = @ + (IF twice \/ nulltb THEN 1 ELSE 0)]

\* a set_result() that rebinds the mediator and not its cursor
set_result_mediator_only(w, result_arg) ==
  [w EXCEPT !.med.result = result_arg]

\* Query_result_materialize::set_result()
set_result(w, result_arg) ==
  LET mc == w.med.materialized_cursor
  IN  [w EXCEPT !.med.result = result_arg,
                !.cur = IF mc # 0 THEN [@ EXCEPT ![mc].result = result_arg] ELSE @,
                !.o.undefined = @ + (IF mc # 0 /\ w.cur[mc].state # "alive"
                                     THEN 1 ELSE 0)]

\* Query_result_materialize::prepare()
prepare(w, env) ==
  IF env.fail = "result_prepare" THEN [w |-> w, rc |-> TRUE]
  ELSE
    LET violated == w.med.table \/ w.med.materialized_cursor # 0
        w0 == [w EXCEPT !.o.asserts = @ + (IF violated THEN 1 ELSE 0)]
    IN  IF env.fail = "alloc"
        THEN [w |-> [w0 EXCEPT !.med.materialized_cursor = 0], rc |-> TRUE]
        ELSE
          LET id == NewCursorId(w0.cur)
              w1 == [w0 EXCEPT !.cur[id] = Materialized_cursor(w0.med.result),
                               !.med.materialized_cursor = id,
                               !.o.constructed = id]
          IN  IF env.fail = "create_table"
              THEN [w |-> delete_cursor(w1, id), rc |-> TRUE]
              ELSE [w |-> [w1 EXCEPT !.tbl = [NoTable EXCEPT !.state = "defined"],
                                     !.med.table = TRUE,
                                     !.cur[id].table = TRUE],
                    rc |-> FALSE]

\* a start_execution() that instantiates the table at every call
start_execution_every_call(w, env) ==
  [w |-> [w EXCEPT !.tbl = instantiate_tmp_table(@),
                   !.o.start_calls = @ + 1,
                   !.o.instantiations = @ + 1],
   rc |-> FALSE]

\* Query_result_materialize::start_execution(); a null table or cursor stops
\* the process, a freed table is read as it was left or stops the process
start_execution(w, env) ==
  LET w0 == [w EXCEPT !.o.start_calls = @ + 1] IN
  IF ~w.med.table \/ w.tbl.state = "null" \/ (w.tbl.state = "freed" /\ env.ub = "crash")
  THEN [w |-> [w0 EXCEPT !.o.undefined = @ + 1, !.crash = TRUE], rc |-> TRUE]
  ELSE IF w.tbl.created
  THEN [w |-> [w0 EXCEPT !.o = returned([@ EXCEPT !.early_returns = @ + 1],
                                        "start_execution", w.o.mem_root,
                                        w.o.mem_root, w.o.mem_root)],
        rc |-> FALSE]
  ELSE IF w.med.materialized_cursor = 0
  THEN [w |-> [w0 EXCEPT !.o.undefined = @ + 1, !.crash = TRUE], rc |-> TRUE]
  ELSE
    LET saved_mem_root == w.o.mem_root
        wa == [w0 EXCEPT !.o.mem_root = "cursor"]
        wb == [wa EXCEPT !.o.mem_root = saved_mem_root]
    IN  IF env.fail = "instantiate"
        THEN [w |-> [wb EXCEPT !.o = returned(@, "start_execution", saved_mem_root,
                                              wa.o.mem_root, wb.o.mem_root)],
              rc |-> TRUE]
        ELSE [w |-> [wb EXCEPT !.tbl = instantiate_tmp_table(@),
                               !.o.instantiations = @ + 1,
                               !.o.undefined = @ + (IF w.tbl.state = "freed"
                                                    THEN 1 ELSE 0),
                               !.o = returned(@, "start_execution", saved_mem_root,
                                              wa.o.mem_root, wb.o.mem_root)],
              rc |-> FALSE]

\* TABLE::fill_item_list(): one Item_field per column of the temporary table
fill_item_list(n) == [i \in 1..n |-> TmpColumn]

\* descriptors that keep the identity of the temporary table's columns
keep_tmp_names(dst, list) == dst

\* send_result_set_metadata(), lines 328-339: the database and table name of
\* each original item are copied onto the descriptor at the same position
copy_original_names(dst, list) ==
  [i \in 1..Min(Len(dst), Len(list)) |-> [db |-> list[i].db, tn |-> list[i].tn]]

\* List::is_empty() of item_list, line 314
is_empty(item_list) == item_list = << >>

\* a failure of fill_item_list() that returns with the cursor's arena active
fill_item_list_failed_no_restore(c, o, backup) ==
  [c |-> c,
   o |-> returned([o EXCEPT !.fills = @ + 1], "send_result_set_metadata",
                  backup, o.arena, o.arena),
   rc |-> TRUE]

\* send_result_set_metadata(), lines 315-318: fill_item_list() failed
fill_item_list_failed(c, o, backup) ==
  LET ob == swap_query_arena([o EXCEPT !.fills = @ + 1], backup)
  IN  [c |-> c,
       o |-> returned(ob, "send_result_set_metadata", backup, o.arena, ob.arena),
       rc |-> TRUE]

\* Materialized_cursor::send_result_set_metadata()
cursor_send_result_set_metadata(c, o, list, env) ==
  LET backup == o.arena
      oa     == swap_query_arena(o, "cursor")
  IN
  IF is_empty(c.item_list) /\ env.fail = "fill_item_list"
  THEN fill_item_list_failed(c, oa, backup)
  ELSE
    LET items == IF is_empty(c.item_list)
                 THEN copy_original_names(fill_item_list(Len(list)), list)
                 ELSE c.item_list
        c1    == [c EXCEPT !.item_list = items]
        o1    == [oa EXCEPT !.fills = @ + (IF is_empty(c.item_list) THEN 1 ELSE 0),
                            !.item_list_kept = @ /\ (c.item_list = << >>
                                                     \/ items = c.item_list)]
        ob    == swap_query_arena(o1, backup)
    IN  IF env.fail = "send_metadata"
        THEN [c |-> c1,
              o |-> returned(ob, "send_result_set_metadata", backup, oa.arena,
                             ob.arena),
              rc |-> TRUE]
        ELSE [c |-> c1,
              o |-> returned([ob EXCEPT !.metadata = items, !.meta_sink = c.result,
                                        !.meta_calls = @ + 1],
                             "send_result_set_metadata", backup, oa.arena, ob.arena),
              rc |-> FALSE]

\* Query_result_materialize::send_result_set_metadata()
send_result_set_metadata(w, list, env) ==
  LET mc == w.med.materialized_cursor
  IN  IF mc = 0 \/ w.cur[mc].state # "alive"
      THEN [w |-> [w EXCEPT !.o.undefined = @ + 1, !.crash = TRUE], rc |-> TRUE]
      ELSE LET r == cursor_send_result_set_metadata(w.cur[mc], w.o, list, env)
           IN  [w |-> [w EXCEPT !.cur[mc] = r.c, !.o = r.o, !.o.meta_cursor = mc,
                                !.o.columns = list],
                rc |-> r.rc]

(***************************************************************************)
(* The executor, as mysql_open_cursor uses it.                             *)
(***************************************************************************)

\* mysql_execute_command(): runs the statement with lex->result as its sink.
\* With a mediator it prepares the mediator when the statement is not yet
\* prepared (or its result is flagged lazy), starts the execution once or,
\* for a union, twice, sends the metadata (once, or once more when the
\* metadata is requested again) and inserts the rows.
mysql_execute_command(w, env) ==
  IF w.stmt.result = 0
  THEN [w |-> [w EXCEPT !.o.executed = TRUE], rc |-> env.fail = "execute"]
  ELSE
    LET need == ~w.stmt.is_prepared \/ w.stmt.lazy
        p    == IF need THEN prepare(w, env) ELSE [w |-> w, rc |-> FALSE]
        w1   == IF need /\ ~p.rc
                THEN [p.w EXCEPT !.stmt.is_prepared = TRUE, !.stmt.lazy = FALSE,
                                 !.stmt.query_result = p.w.stmt.result]
                ELSE p.w
    IN  IF p.rc THEN [w |-> w1, rc |-> TRUE]
        ELSE IF env.fail = "optimize"
        THEN [w |-> [w1 EXCEPT !.o.executed = TRUE], rc |-> TRUE]
        ELSE
          LET s1 == start_execution([w1 EXCEPT !.o.executed = TRUE], env)
              s2 == IF env.union /\ ~s1.rc THEN start_execution(s1.w, env) ELSE s1
          IN  IF s2.rc THEN s2
              ELSE
                LET m1 == send_result_set_metadata(s2.w, env.columns, env)
                    m  == IF env.resend /\ ~m1.rc
                          THEN send_result_set_metadata(m1.w, env.columns, env)
                          ELSE m1
                IN  IF m.rc THEN m
                    ELSE [w |-> [m.w EXCEPT !.tbl.rows = env.rows],
                          rc |-> env.fail = "execute"]

(***************************************************************************)
(* mysql_open_cursor()                                                     *)
(***************************************************************************)

\* Query_result_materialize::abort_result_set(), inherited: rolls back the
\* metadata in flight between the Result Sink and the client
abort_result_set(w) == [w EXCEPT !.o.med_abort = @ + 1, !.o.abort = @ + 1]

\* an execution failure that deletes the cursor and keeps the reference to it
execute_failed_keeps_reference(w, rm, pc, env) ==
  IF rm = 0
  THEN [w |-> [w EXCEPT !.o.undefined = @ + 1, !.crash = env.ub = "crash"],
        rc |-> TRUE, pcursor |-> pc]
  ELSE IF w.med.materialized_cursor # 0
  THEN [w |-> delete_cursor(abort_result_set(w), w.med.materialized_cursor),
        rc |-> TRUE, pcursor |-> pc]
  ELSE [w |-> w, rc |-> TRUE, pcursor |-> pc]

\* mysql_open_cursor(), lines 246-256: the executor returned failure;
\* rm is result_materialize (0 = nullptr), pc is *pcursor
execute_failed(w, rm, pc, env) ==
  IF rm = 0
  THEN [w |-> [w EXCEPT !.o.undefined = @ + 1, !.crash = env.ub = "crash"],
        rc |-> TRUE, pcursor |-> pc]
  ELSE IF w.med.materialized_cursor # 0
  THEN [w |-> [delete_cursor(abort_result_set(w), w.med.materialized_cursor)
               EXCEPT !.med.materialized_cursor = 0],
        rc |-> TRUE, pcursor |-> pc]
  ELSE [w |-> w, rc |-> TRUE, pcursor |-> pc]

\* mysql_open_cursor(), lines 258-277: the executor returned success
execute_succeeded(w, rm, pc, env) ==
  IF rm # 0 /\ w.med.materialized_cursor # 0 THEN
    LET id == w.med.materialized_cursor
        stale == w.cur[id].state # "alive"
        r  == open(w.cur[id], w.tbl, w.o, env)
        w1 == [w EXCEPT !.cur[id] = r.c, !.tbl = r.t, !.o = r.o,
                        !.o.undefined = r.o.undefined + (IF stale THEN 1 ELSE 0),
                        !.o.opened = TRUE,
                        !.o.cursor = id,
                        !.crash = r.crash \/ (stale /\ env.ub = "crash")]
    IN  IF r.rc
        THEN [w |-> delete_cursor(w1, id), rc |-> TRUE, pcursor |-> pc]
        ELSE [w |-> w1, rc |-> FALSE, pcursor |-> IF pc = 0 THEN id ELSE pc]
  ELSE [w |-> w, rc |-> FALSE, pcursor |-> pc]

\* lines 246-277: what mysql_open_cursor does with the executor's result
after_execute(w, rm, rc, pc, env) ==
  IF rc
  THEN execute_failed([w EXCEPT !.o.exec_failed = TRUE], rm, pc, env)
  ELSE execute_succeeded(w, rm, pc, env)

\* Query_result_materialize::Query_result_materialize(result)
Query_result_materialize(result) == [NoMediator EXCEPT !.exists = TRUE, !.result = result]

\* a result_object() without the first branch: a mediator for every statement
result_object_for_all(w, result, env) ==
  IF ~w.stmt.is_prepared
  THEN [w |-> [w EXCEPT !.med = Query_result_materialize(result),
                        !.o.created_mediator = TRUE],
        rm |-> 1, oom |-> env.fail = "alloc_mediator"]
  ELSE IF w.stmt.result = 0
  THEN [w |-> [w EXCEPT !.med = Query_result_materialize(result),
                        !.o.created_mediator = TRUE,
                        !.stmt.query_result = 1,
                        !.stmt.lazy = TRUE],
        rm |-> 1, oom |-> env.fail = "alloc_mediator"]
  ELSE [w |-> set_result(w, result), rm |-> w.stmt.query_result, oom |-> FALSE]

\* mysql_open_cursor(), lines 197-218: the result object for materialization
\* (rm = 0 is nullptr); oom is a failed allocation of a new mediator
result_object(w, result, env) ==
  IF ~w.stmt.may_use_cursor \/ w.stmt.is_regular
  THEN [w |-> w, rm |-> 0, oom |-> FALSE]
  ELSE IF ~w.stmt.is_prepared
  THEN [w |-> [w EXCEPT !.med = Query_result_materialize(result),
                        !.o.created_mediator = TRUE],
        rm |-> 1, oom |-> env.fail = "alloc_mediator"]
  ELSE IF w.stmt.result = 0
  THEN [w |-> [w EXCEPT !.med = Query_result_materialize(result),
                        !.o.created_mediator = TRUE,
                        !.stmt.query_result = 1,
                        !.stmt.lazy = TRUE],
        rm |-> 1, oom |-> env.fail = "alloc_mediator"]
  ELSE [w |-> set_result(w, result), rm |-> w.stmt.query_result, oom |-> FALSE]

\* mysql_open_cursor(thd, result, pcursor)
mysql_open_cursor(w, result, pc, env) ==
  IF ~w.stmt.is_dml
  THEN [w |-> [w EXCEPT !.o.error = "ER_WRONG_ARGUMENTS"], rc |-> TRUE, pcursor |-> pc]
  ELSE
    LET m  == result_object(w, result, env)
        x  == mysql_execute_command([m.w EXCEPT !.stmt.result = m.rm], env)
    IN  IF m.oom THEN [w |-> w, rc |-> TRUE, pcursor |-> pc]
        ELSE IF x.w.crash THEN [w |-> x.w, rc |-> TRUE, pcursor |-> pc]
        ELSE after_execute(x.w, m.rm, x.rc, pc, env)

(***************************************************************************)
(* Actions: the calls the owning session makes.                            *)
(***************************************************************************)

\* the answers of the collaborators during mysql_open_cursor: the call that
\* fails (if any), whether the plan is a union, the statement's columns,
\* the rows it produces, and what an undefined step does
EarlyFailPoints ==
  { "alloc_mediator", "result_prepare", "alloc", "create_table", "optimize" }
LateFailPoints == { "none", "execute", "open_prepare", "rnd_init" }
DefaultColumns == << [db |-> "db1", tn |-> "t1"] >>

OpenEnvs(ubs) ==
  [ fail : EarlyFailPoints \cup {"instantiate", "open_prepare", "rnd_init"},
    union : {FALSE}, resend : {FALSE}, columns : {DefaultColumns},
    rows : {<< >>}, ub : {"go"} ]
  \cup [ fail : {"fill_item_list", "send_metadata"}, union : {FALSE},
         resend : {FALSE}, columns : ColumnLists, rows : {<< >>}, ub : {"go"} ]
  \cup [ fail : {"execute"}, union : {FALSE}, resend : {FALSE},
         columns : {DefaultColumns}, rows : {<< >>}, ub : {"crash", "go"} ]
  \cup [ fail : {"none"}, union : {FALSE}, resend : {FALSE},
         columns : {DefaultColumns}, rows : RowSets, ub : ubs ]
  \cup [ fail : {"none"}, union : BOOLEAN, resend : BOOLEAN, columns : ColumnLists,
         rows : {Rows(0, 1)}, ub : ubs ]

\* an undefined step has two outcomes where the mediator holds a discarded
\* cursor or a freed table; elsewhere a successful run takes no undefined step
Outcomes ==
  IF \/ tbl.state = "freed"
     \/ med.materialized_cursor # 0 /\ cur[med.materialized_cursor].state # "alive"
  THEN {"crash", "go"} ELSE {"go"}

\* the answers of the collaborators during fetch: the read at which the
\* handler reports an error or the row whose delivery fails (0 = none), and
\* what a read through a released handle does; with left rows after the
\* scan position a call makes at most left + 1 reads and left deliveries
FetchEnvs(defined, left) ==
  IF defined
  THEN [ scan_err_at : 0..(left + 1), send_fail_at : {0}, ub : {"crash"} ]
       \cup [ scan_err_at : {0}, send_fail_at : 1..left, ub : {"crash"} ]
  ELSE [ scan_err_at : {0}, send_fail_at : 0..1, ub : {"crash", "row", "eof", "err"} ]

World == [ stmt |-> stmt, med |-> med, cur |-> cur, tbl |-> tbl, o |-> NoCall,
           crash |-> FALSE ]

Ret(rc, crash) == IF crash THEN "crash" ELSE IF rc THEN "fail" ELSE "ok"

\* the session opens (or re-opens) the statement's cursor; an open cursor is
\* closed by its owner before the statement is executed again
MysqlOpenCursor ==
  /\ ~crashed /\ ~stmt.destroyed
  /\ FreeCursorIds(cur) # {}
  /\ pcursor # 0 => ~is_open(cur[pcursor], tbl)
  /\ \E result \in Sinks, env \in OpenEnvs(Outcomes) :
       LET w0 == [World EXCEPT !.o.op = "mysql_open_cursor", !.o.sink = result,
                               !.o.med_before = med,
                               !.o.stmt_result_before = stmt.result,
                               !.o.prepared_before = stmt.is_prepared,
                               !.o.pcursor_before = pcursor,
                               !.o.fail = env.fail]
       IN  \E r \in {mysql_open_cursor(w0, result, pcursor, env)} :
           /\ stmt' = r.w.stmt
           /\ med' = r.w.med
           /\ cur' = r.w.cur
           /\ tbl' = r.w.tbl
           /\ pcursor' = r.pcursor
           /\ crashed' = (r.w.crash \/ r.w.o.undefined > 0)
           /\ last' = [r.w.o EXCEPT !.ret = Ret(r.rc, r.w.crash)]
           /\ hist' = [NoHist EXCEPT
                         !.opened = r.w.o.opened /\ ~r.rc,
                         !.sink = result,
                         !.earlier = IF stmt.is_prepared /\ stmt.result # 0
                                     THEN med.result ELSE 0,
                         !.reopened = /\ hist.opened /\ hist.drained
                                      /\ r.w.o.opened /\ ~r.rc
                                      /\ pcursor # 0 /\ r.w.o.cursor = pcursor]

\* the session fetches num_rows rows through its cursor reference
Fetch ==
  /\ ~crashed /\ ~stmt.destroyed
  /\ pcursor # 0
  /\ \E num_rows \in 1..Min(MaxFetch, MaxSum - hist.requested),
        env \in FetchEnvs(tbl.handler /\ tbl.scanning /\ cur[pcursor].state = "alive",
                          Len(tbl.rows) - tbl.pos) :
       LET c  == cur[pcursor]
           stale == c.state # "alive"
           o0 == [NoCall EXCEPT !.op = "fetch", !.n = num_rows, !.cursor = pcursor,
                                !.sink = c.result,
                                !.open_before = is_open(c, tbl),
                                !.alive_before = ~stale,
                                !.scan_before = c.is_rnd_inited,
                                !.fc_before = c.fetch_count,
                                !.fl_before = c.fetch_limit,
                                !.pos_before = tbl.pos,
                                !.undefined = IF stale THEN 1 ELSE 0]
       IN  \E r \in {fetch(c, tbl, o0, num_rows, env)} :
           LET crash == r.crash \/ (stale /\ env.ub = "crash") IN
           /\ cur' = [cur EXCEPT ![pcursor] = r.c]
           /\ tbl' = r.t
           /\ crashed' = (crash \/ r.o.undefined > 0 \/ r.o.released_reads > 0)
           /\ last' = [r.o EXCEPT !.ret = Ret(r.rc, crash)]
           /\ hist' = [hist EXCEPT
                         !.requested = @ + num_rows,
                         !.delivered = @ \o r.o.fwd,
                         !.clean = @ /\ r.o.scan_err_at = 0 /\ r.o.send_fail_at = 0,
                         !.precondition = @ /\ is_open(c, tbl) /\ ~stale,
                         !.sent_ok = @ /\ r.o.send_fail_at = 0,
                         !.calls = IF /\ hist.precondition /\ hist.sent_ok
                                      /\ is_open(c, tbl) /\ ~stale
                                      /\ r.o.send_fail_at = 0
                                   THEN @ + 1 ELSE 0,
                         !.drained = @ \/ (/\ is_open(c, tbl)
                                           /\ ~is_open(r.c, r.t)
                                           /\ SERVER_STATUS_LAST_ROW_SENT \in r.o.status)]
           /\ UNCHANGED << stmt, med, pcursor >>

\* the session closes its cursor
Close ==
  /\ ~crashed /\ ~stmt.destroyed
  /\ pcursor # 0
  /\ LET c  == cur[pcursor]
         stale == c.state # "alive"
         o0 == [NoCall EXCEPT !.op = "close", !.cursor = pcursor,
                              !.open_before = is_open(c, tbl),
                              !.alive_before = ~stale,
                              !.scan_before = c.is_rnd_inited,
                              !.fc_before = c.fetch_count,
                              !.fl_before = c.fetch_limit,
                              !.pos_before = tbl.pos,
                              !.undefined = IF stale THEN 1 ELSE 0]
     IN  \E r \in {close(c, tbl, o0)} :
         /\ cur' = [cur EXCEPT ![pcursor] = r.c]
         /\ tbl' = r.t
         /\ last' = [r.o EXCEPT !.ret = "ok", !.same_state = (r.c = c /\ r.t = tbl)]
         /\ crashed' = stale
         /\ UNCHANGED << stmt, med, pcursor, hist >>

\* Query_result_materialize::~Query_result_materialize(), line 116
destroy_mediator(w) ==
  LET mc == w.med.materialized_cursor
  IN  [(IF mc # 0 THEN delete_cursor(w, mc) ELSE w) EXCEPT !.med = NoMediator]

\* the statement that owns the mediator is destroyed, and the mediator with
\* it; the owner has closed the cursor before
DestroyStatement ==
  /\ ~crashed /\ ~stmt.destroyed
  /\ med.exists
  /\ pcursor # 0 => ~is_open(cur[pcursor], tbl)
  /\ med.materialized_cursor # 0 => ~is_open(cur[med.materialized_cursor], tbl)
  /\ LET w0 == [World EXCEPT !.o.op = "destroy", !.o.med_before = med,
                             !.o.cursor = med.materialized_cursor,
                             !.o.pcursor_before = pcursor]
     IN  \E r \in {destroy_mediator(w0)} :
         \E ub \in {"go"} \cup (IF r.o.undefined > 0 THEN {"crash"} ELSE {}) :
         /\ stmt' = [r.stmt EXCEPT !.destroyed = TRUE]
         /\ med' = r.med
         /\ cur' = r.cur
         /\ tbl' = r.tbl
         /\ pcursor' = 0
         /\ crashed' = (r.o.undefined > 0)
         /\ last' = [r.o EXCEPT !.ret = Ret(FALSE, ub = "crash")]
         /\ UNCHANGED hist

Next == MysqlOpenCursor \/ Fetch \/ Close \/ DestroyStatement

Spec == Init /\ [][Next]_vars

(***************************************************************************)
(* Properties.                                                             *)
(***************************************************************************)

\* the call that has just returned
FetchReturned == last.op = "fetch"
OpenCursorReturned == last.op = "mysql_open_cursor"

\* the cursor the last call worked on, and the table's row count
TheCursor == cur[last.cursor]
R == Len(tbl.rows)

\* every fetch since the last successful open() was made on an open cursor
\* and met neither a scan error nor a delivery failure
CleanRun == hist.opened /\ hist.clean /\ hist.precondition

\* the cumulative requested count is a value of the counter's type
InRange == hist.requested < UlongMod

\* C1: over a freshly opened cursor on R rows, with no scan error and no
\* delivery failure, fetch(n1), fetch(n2), ... (each on the open cursor)
\* has forwarded min(sum ni, R) rows, which are
\* the first rows of the table in scan order, none skipped or repeated, and
\* fetch_count is the number of rows forwarded since open.
C1_RowsDelivered ==
  (FetchReturned /\ CleanRun) =>
    /\ hist.delivered = SubSeq(tbl.rows, 1, Min(hist.requested, R))
    /\ Len(hist.delivered) = Min(hist.requested, R)
    /\ TheCursor.fetch_count = Len(hist.delivered)

\* the same for sequences whose sum is a value of the counter's type
RowsDeliveredInRange == InRange => C1_RowsDelivered

\* a second or later fetch has crossed the end of a 3-row table
C1_Witness ==
  /\ FetchReturned /\ CleanRun /\ InRange
  /\ last.n < hist.requested /\ R = 3 /\ hist.requested > R
  /\ Len(hist.delivered) = 3

\* C2 as stated: the call after which the cumulative requested count equals
\* R exactly reports last-row-sent and leaves the cursor closed.
C2_ExactSumCloses ==
  (FetchReturned /\ CleanRun /\ hist.requested = R) =>
    /\ SERVER_STATUS_LAST_ROW_SENT \in last.status
    /\ ~is_open(TheCursor, tbl)

\* C2 amended: the call after which the cumulative requested count equals R
\* exactly forwards the last row, reports cursor-exists (not last-row-sent)
\* and leaves the cursor open; last-row-sent is reported only by a call that
\* read end-of-data, when more than R rows have been requested.
C2_ExactSumStaysOpen ==
  /\ (FetchReturned /\ CleanRun /\ hist.requested = R) =>
       /\ last.ret = "ok"
       /\ last.status = {SERVER_STATUS_CURSOR_EXISTS}
       /\ Len(hist.delivered) = R
       /\ is_open(TheCursor, tbl) /\ TheCursor.is_rnd_inited
  /\ (FetchReturned /\ CleanRun /\ SERVER_STATUS_LAST_ROW_SENT \in last.status) =>
       /\ hist.requested > R
       /\ last.reads = Len(last.fwd) + 1

\* C2 witness: two fetches have requested exactly the 3 rows of the table
C2_Witness ==
  /\ FetchReturned /\ CleanRun /\ hist.requested = R /\ R = 3
  /\ last.n < hist.requested /\ last.fwd # << >>

\* C3: with no scan error and no delivery failure since open, the fetch(n)
\* that makes the cumulative requested count exceed R forwards exactly the remaining R - fetch_count_before rows,
\* sets last-row-sent, sends end-of-data, returns success and leaves the
\* cursor closed (scan ended, is_open() false).
C3_CrossingCallCloses ==
  (FetchReturned /\ CleanRun /\ hist.requested > R) =>
    /\ last.fwd = SubSeq(tbl.rows, last.fc_before + 1, R)
    /\ Len(last.fwd) = R - last.fc_before
    /\ last.status = {SERVER_STATUS_LAST_ROW_SENT}
    /\ last.eof = 1
    /\ last.ret = "ok"
    /\ ~TheCursor.is_rnd_inited /\ ~tbl.scanning /\ last.rnd_ends = 1
    /\ ~is_open(TheCursor, tbl)

\* the same for sequences whose sum is a value of the counter's type
CrossingCallClosesInRange == InRange => C3_CrossingCallCloses

\* R = 3, fetch(2) then fetch(2): the second call forwards row 3
C3_Witness ==
  /\ FetchReturned /\ CleanRun /\ InRange
  /\ R = 3 /\ hist.requested = 4 /\ last.n = 2 /\ last.fc_before = 2
  /\ Len(last.fwd) = 1 /\ last.fwd[1] = tbl.rows[3]
  /\ last.status = {SERVER_STATUS_LAST_ROW_SENT}

\* open() was called by the last mysql_open_cursor and returned success
OpenSucceeded == OpenCursorReturned /\ last.opened /\ last.ret = "ok"

FetchOnClosed == FetchReturned /\ last.alive_before /\ ~last.open_before

\* C6 as stated: a fetch on a closed cursor is rejected with a failure
\* result, forwards no row and does not touch the scan handle.
C6_ClosedFetchRejected ==
  FetchOnClosed =>
    /\ last.ret = "fail"
    /\ last.fwd = << >>
    /\ last.reads = 0

\* C6 amended: fetch() makes no open check.  On a closed cursor it begins a
\* dataset and advances fetch_limit like any other call; it is never
\* rejected before the scan handle is used: either it reads through the
\* released handle (undefined) or, when fetch_count is not below the new
\* fetch_limit, it returns success with no row and cursor-exists status.
C6_ClosedFetchNotRejected ==
  FetchOnClosed =>
    /\ last.begun
    /\ TheCursor.fetch_limit = (last.fl_before + last.n) % UlongMod
    /\ \/ last.reads >= 1 /\ last.released_reads = last.reads
       \/ /\ last.reads = 0 /\ last.ret = "ok" /\ last.fwd = << >>
          /\ last.status = {SERVER_STATUS_CURSOR_EXISTS}

\* C6 witness: a fetch after the automatic close has read the released handle
C6_Witness ==
  /\ FetchOnClosed /\ hist.opened /\ hist.requested > last.n
  /\ last.released_reads >= 1

\* C7: when the handler reports an error other than end-of-data on the k-th
\* read of a fetch(n), the k-1 rows read before it in that call have been
\* forwarded, the failing row is not, no end-of-data is sent, the cursor is
\* closed (scan ended, is_open() false) and fetch returns failure.
C7_ScanError ==
  (FetchReturned /\ last.alive_before /\ last.open_before /\ last.scan_err_at > 0) =>
    /\ last.reads = last.scan_err_at
    /\ Len(last.fwd) = last.scan_err_at - 1
    /\ last.fwd = SubSeq(tbl.rows, last.pos_before + 1,
                         last.pos_before + last.scan_err_at - 1)
    /\ tbl.pos = last.pos_before + last.scan_err_at - 1
    /\ last.eof = 0 /\ last.status = {}
    /\ ~TheCursor.is_rnd_inited /\ ~tbl.scanning
    /\ ~is_open(TheCursor, tbl)
    /\ last.ret = "fail"

\* C7 witness: a handler error on the second row of a fetch(3)
C7_Witness ==
  /\ FetchReturned /\ last.open_before /\ last.n = 3 /\ last.scan_err_at = 2
  /\ Len(last.fwd) = 1 /\ last.ret = "fail"

\* C8: when forwarding a row to the Result Sink fails during fetch(n), fetch
\* returns failure at once: no further row is read or forwarded, no
\* end-of-data and no status flag is reported, the cursor is not closed
\* (scan_active and is_open() keep their values) and fetch_count is not
\* incremented for the failed row.
C8_DeliveryFailure ==
  (FetchReturned /\ last.alive_before /\ last.send_fail_at > 0) =>
    /\ last.ret = "fail"
    /\ last.reads = last.send_fail_at
    /\ Len(last.fwd) = last.send_fail_at - 1
    /\ last.eof = 0 /\ last.status = {}
    /\ last.rnd_ends = 0 /\ last.handle_releases = 0
    /\ TheCursor.is_rnd_inited = last.scan_before
    /\ is_open(TheCursor, tbl) = last.open_before
    /\ TheCursor.fetch_count = (last.fc_before + Len(last.fwd)) % UlongMod

\* C8 witness: the delivery of the second row of a call failed on an open cursor
C8_Witness ==
  /\ FetchReturned /\ last.open_before /\ last.send_fail_at = 2
  /\ Len(last.fwd) = 1 /\ is_open(TheCursor, tbl)

\* C9: every fetch(n) on an open cursor forwards at most n rows, also after
\* an earlier fetch on the same open cursor failed on a row delivery.
C9_AtMostRequested ==
  (FetchReturned /\ last.alive_before /\ last.open_before) => Len(last.fwd) <= last.n

\* the statement of the last mysql_open_cursor call
NotEligible == ~stmt.may_use_cursor \/ stmt.is_regular

\* C10's "rejected with an invalid-usage error and no side effects"
RejectedNoSideEffects ==
  /\ last.error = "ER_WRONG_ARGUMENTS" /\ last.ret = "fail"
  /\ ~last.executed
  /\ ~last.created_mediator /\ med = last.med_before
  /\ stmt.result = last.stmt_result_before
  /\ pcursor = last.pcursor_before

\* C10 as stated: mysql_open_cursor rejects every statement that is not DML
\* or is not eligible for a cursor, with an invalid-usage error and no side
\* effects.
C10_IneligibleRejected ==
  (OpenCursorReturned /\ (~stmt.is_dml \/ NotEligible)) => RejectedNoSideEffects

\* C10 amended: mysql_open_cursor rejects every statement that is not DML
\* with an invalid-usage error and no side effects.  A DML statement that is
\* not eligible for a cursor is not rejected: no mediator is created or
\* installed (lex->result is null) and *pcursor is unchanged, but the
\* statement is executed without a mediator and, when the execution
\* succeeds, success is returned.
C10_NonDmlRejected ==
  /\ (OpenCursorReturned /\ ~stmt.is_dml) => RejectedNoSideEffects
  /\ (OpenCursorReturned /\ stmt.is_dml /\ NotEligible) =>
       /\ last.executed
       /\ last.error = ""
       /\ ~last.created_mediator /\ med = last.med_before
       /\ stmt.result = 0
       /\ pcursor = last.pcursor_before
       /\ ~last.opened
       /\ (last.fail # "execute" => last.ret = "ok")

\* C10 witness: an ineligible DML statement was executed and returned success
C10_Witness ==
  /\ OpenCursorReturned /\ stmt.is_dml /\ NotEligible
  /\ last.executed /\ last.ret = "ok"

\* the executor reported failure to the last mysql_open_cursor, after the
\* mediator's prepare had constructed a cursor in this call and left it in place
ExecFailedWithCursor ==
  /\ OpenCursorReturned /\ last.exec_failed
  /\ last.constructed # 0 /\ last.fail # "create_table"

C12_ReferenceValid ==
  (med.exists /\ med.materialized_cursor # 0) =>
    cur[med.materialized_cursor].state = "alive"

\* the cursor in use was opened again on the same Cursor Core after a fetch
\* of the previous execution had read end-of-data and closed it
Reopened == hist.opened /\ hist.reopened

MetadataSent == OpenCursorReturned /\ last.meta_calls >= 1
SentItemList == cur[last.meta_cursor].item_list

\* C14: after the cursor's send_result_set_metadata succeeds for a column
\* list L, item_list has the length and order of L, descriptor i carries the
\* database and table name of L[i] and not those of the temporary table, that
\* item_list is what the Result Sink was given, and a repeated call before
\* close() neither rebuilds nor changes item_list.
C14_OriginalMetadataKept ==
  MetadataSent =>
    /\ Len(SentItemList) = Len(last.columns)
    /\ \A i \in 1..Len(last.columns) :
         /\ SentItemList[i].db = last.columns[i].db
         /\ SentItemList[i].tn = last.columns[i].tn
         /\ SentItemList[i] # TmpColumn
    /\ last.metadata = SentItemList
    /\ last.fills = 1 /\ last.item_list_kept

\* C14 witness: the metadata of a two-column statement was sent twice
C14_Witness ==
  /\ MetadataSent /\ last.meta_calls = 2 /\ Len(last.columns) = 2
  /\ last.ret = "ok"

\* the last mysql_open_cursor found a mediator attached to the prepared
\* statement, with a live cursor (or none) behind it
MediatorAttached ==
  /\ OpenCursorReturned /\ last.error = ""
  /\ last.prepared_before /\ last.stmt_result_before # 0 /\ last.med_before.exists
  /\ last.med_before.materialized_cursor # 0 => last.undefined = 0

\* C15: when mysql_open_cursor is called for a prepared statement that
\* already has a mediator attached, no new mediator is created, the mediator
\* and its cursor are rebound to the sink supplied in this call, the metadata
\* of this execution goes to that sink, and every row forwarded by a fetch
\* after this open goes to that sink and none to the sink of an earlier open.
C15_SinkRebound ==
  /\ MediatorAttached =>
       /\ ~last.created_mediator
       /\ med.exists /\ med.result = last.sink
       /\ last.med_before.materialized_cursor # 0 =>
            cur[last.med_before.materialized_cursor].result = last.sink
       /\ last.meta_calls >= 1 => last.meta_sink = last.sink
  /\ (FetchReturned /\ hist.opened /\ last.alive_before /\ hist.earlier # 0) =>
       /\ last.row_sinks \subseteq {hist.sink}
       /\ TheCursor.result = hist.sink

\* C15 witness: rows were fetched after a re-open that supplied another sink
C15_Witness ==
  /\ FetchReturned /\ hist.opened /\ last.alive_before
  /\ hist.earlier # 0 /\ hist.earlier # hist.sink
  /\ Len(last.fwd) >= 2 /\ last.row_sinks = {hist.sink}

\* the cursors that have been constructed and not destroyed
AliveCursors == { id \in CursorIds : cur[id].state = "alive" }

FetchAfterLastRow ==
  /\ FetchReturned /\ CleanRun
  /\ last.open_before /\ last.scan_before
  /\ last.pos_before = R /\ last.fc_before = R
  /\ Len(hist.delivered) = R

\* C17: a fetch on an open cursor whose scan is already positioned after the
\* last row (all R rows delivered by earlier calls that ended with
\* cursor-exists) forwards no row, sets
\* last-row-sent, sends end-of-data, closes the cursor and returns success:
\* exhaustion is reported in a round trip of its own.
C17_ExhaustionRoundTrip ==
  FetchAfterLastRow =>
    /\ last.fwd = << >> /\ last.reads = 1
    /\ last.status = {SERVER_STATUS_LAST_ROW_SENT}
    /\ last.eof = 1
    /\ last.rnd_ends = 1 /\ last.handle_releases = 1
    /\ ~TheCursor.is_rnd_inited /\ ~is_open(TheCursor, tbl)
    /\ last.ret = "ok"

\* the same for sequences whose sum is a value of the counter's type
ExhaustionRoundTripInRange == InRange => C17_ExhaustionRoundTrip

\* R = 3, fetch(3) delivered all rows, then fetch(1)
C17_Witness ==
  /\ FetchAfterLastRow /\ InRange /\ R = 3 /\ last.n = 1 /\ hist.requested = 4
  /\ hist.delivered = tbl.rows

\* C18: between two open() calls fetch_limit and fetch_count never decrease,
\* fetch_count <= fetch_limit in every state, each fetch(n) raises fetch_limit
\* by exactly n, also at the upper bound of the counter's width, and
\* fetch_count rises by exactly one per row forwarded.
C18_CountersMonotone ==
  /\ \A id \in AliveCursors : cur[id].fetch_count <= cur[id].fetch_limit
  /\ (FetchReturned /\ last.alive_before /\ last.open_before) =>
       /\ TheCursor.fetch_limit = last.fl_before + last.n
       /\ TheCursor.fetch_limit >= last.fl_before
       /\ TheCursor.fetch_count >= last.fc_before
       /\ TheCursor.fetch_count = last.fc_before + Len(last.fwd)

\* the last call was a close() of a live cursor that has its table
CloseReturned ==
  /\ last.op = "close" /\ last.alive_before
  /\ TheCursor.state = "alive" /\ TheCursor.table

\* C19: close() ends the active scan if is_rnd_inited is set, releases the
\* table's storage handle (is_open() becomes false), empties item_list and
\* clears is_rnd_inited, and neither destroys nor unbinds the table object;
\* close() on a cursor that is already closed changes nothing and performs
\* no second scan end or handle release.
C19_CloseIdempotent ==
  CloseReturned =>
    /\ last.rnd_ends = (IF last.scan_before THEN 1 ELSE 0)
    /\ last.handle_releases = (IF last.open_before THEN 1 ELSE 0)
    /\ ~is_open(TheCursor, tbl) /\ ~tbl.handler /\ ~tbl.scanning
    /\ TheCursor.item_list = << >> /\ ~TheCursor.is_rnd_inited
    /\ tbl.state = "defined"
    /\ TheCursor.fetch_count = last.fc_before
    /\ TheCursor.fetch_limit = last.fl_before
    /\ ~last.open_before =>
         last.same_state /\ last.rnd_ends = 0 /\ last.handle_releases = 0

\* C19 witness: close() was called on a cursor that a fetch had closed
C19_Witness ==
  /\ CloseReturned /\ ~last.open_before /\ hist.drained
  /\ last.same_state /\ last.fc_before >= 2

\* C20: within one statement execution the temporary table is instantiated
\* at most once; a start_execution() call made after a successful
\* instantiation returns success without instantiating again and leaves the
\* table and its handler as they are.
C20_InstantiatedOnce ==
  (OpenCursorReturned /\ last.undefined = 0) =>
    /\ last.instantiations <= 1
    /\ last.start_calls >= 2 =>
         /\ last.instantiations = 1
         /\ last.early_returns = last.start_calls - 1
    /\ (last.fail = "none" /\ last.start_calls >= 1) =>
         /\ last.ret = "ok" /\ tbl.created /\ tbl.handler
         /\ tbl.rows # << >> => tbl.pos = 0

\* C20 witness: a union called start_execution() twice in one execution
C20_Witness ==
  /\ OpenCursorReturned /\ last.undefined = 0 /\ last.start_calls = 2
  /\ last.instantiations = 1 /\ last.ret = "ok" /\ R = 1

\* C21: on every exit path of Materialized_cursor::send_result_set_metadata,
\* Materialized_cursor::open and Query_result_materialize::start_execution
\* the session's active arena (mem_root) is the one that was active on entry;
\* the cursor's own arena is active only inside these operations.
C21_ArenaRestored ==
  /\ \A i \in 1..Len(last.arena_trace) :
       /\ last.arena_trace[i].exit = last.arena_trace[i].entry
       /\ last.arena_trace[i].exit # "cursor"
  /\ last.arena = "statement" /\ last.mem_root = "statement"

\* C21 witness: after a successful instantiation under the cursor's mem_root,
\* send_result_set_metadata left through its fill_item_list() failure return
C21_Witness ==
  /\ OpenCursorReturned /\ last.fail = "fill_item_list" /\ last.ret = "fail"
  /\ Len(last.arena_trace) = 2
  /\ last.arena_trace[1].op = "start_execution"
  /\ last.arena_trace[1].inside = "cursor"
  /\ last.arena_trace[2].op = "send_result_set_metadata"
  /\ last.arena_trace[2].inside = "cursor"

\* C22: whenever a Cursor Core is destroyed (by mysql_open_cursor on
\* execution or open failure, by the mediator's prepare on table-creation
\* failure, or by the mediator's destructor) the destructor's assertion
\* holds: the cursor has a bound table and its storage handle is released.
C22_DestructorAssertion ==
  last.deletes >= 1 => (last.asserts = 0 /\ last.unbound_deletes = 0)

\* C23: mysql_open_cursor never accesses a mediator that does not exist: when
\* no mediator was created or reused (result_materialize is null), both the
\* successful and the failed execution return a status without reading the
\* mediator's materialized_cursor.
C23_NoNullMediatorAccess ==
  (OpenCursorReturned /\ last.executed /\ stmt.result = 0) =>
    /\ last.undefined = 0
    /\ last.ret \in {"ok", "fail"}

\* the cursor the session holds is open
CursorOpen == pcursor # 0 /\ is_open(cur[pcursor], tbl)

\* C24: for an open cursor over R rows, a client that keeps calling fetch(n),
\* n >= 1, with no delivery failure
\* finds the cursor closed after at most R + 1 calls, closed by the call that
\* read end-of-data or met a scan failure; without further fetches the
\* cursor stays open until close() is called.
C24_ClosedWithinBound ==
  /\ (CleanRun /\ CursorOpen) => hist.calls <= R
  /\ ( /\ FetchReturned /\ hist.opened /\ hist.precondition /\ hist.sent_ok
       /\ ~CursorOpen ) =>
       /\ hist.calls <= R + 1
       /\ \/ SERVER_STATUS_LAST_ROW_SENT \in last.status
          \/ last.scan_err_at > 0
  /\ (hist.opened /\ pcursor # 0 /\ ~CursorOpen) => last.op \in {"fetch", "close"}

\* the same for sequences whose sum is a value of the counter's type
ClosedWithinBoundInRange == InRange => C24_ClosedWithinBound

\* R = 3 and four calls of fetch(1); the fourth closed the cursor
C24_Witness ==
  /\ FetchReturned /\ CleanRun /\ InRange /\ ~CursorOpen
  /\ R = 3 /\ hist.calls = 4 /\ hist.requested = 4
  /\ SERVER_STATUS_LAST_ROW_SENT \in last.status

====
